---- MODULE Spec2Model ----
(***************************************************************************)
(* ARIA incident backend: the POST /incidents/investigate request, the     *)
(* AriaOrchestrator.run async generator it streams, the three agents       *)
(* (Triage, Investigation, RCA) with their tiers, and the connectors they  *)
(* call.                                                                   *)
(*                                                                         *)
(* Representation.  JSON values whose type the code does not control are   *)
(* wrapped: [k |-> "num", n |-> v], or k = "absent" (key not present),     *)
(* "null", "str" (a non-numeric string).  Probabilities and confidences    *)
(* are in hundredths (0.88 is 88).  Timestamps and uuids, which no claim   *)
(* reads, are left out of the records.                                     *)
(***************************************************************************)
EXTENDS Integers, Sequences, FiniteSets, TLC

VARIABLES
    focus,      \* the part of the run whose backends show their full range
    cfg,        \* config.connector_live(name) for each connector name
    body,       \* the JSON body of the POST request
    http,       \* "pending" | "rejected" | "streaming" | "closed"
    connected,  \* the client is still reading the stream
    alert,      \* the validated AlertPayload (NoAlert before ingestion)
    opc,        \* where the orchestrator.run generator stands
    triage,     \* TriageResult of this run
    investigation, \* InvestigationResult of this run
    rca,        \* the dict RCAAgent.run returned
    rcaTier,    \* which tier produced rca: 0 none, 1 strands, 2 synthesis, 3 fallback
    fetch,      \* the two gathered fetches: status and result of each
    handles,    \* the lazily initialised module globals (_driver, _client)
    events,     \* the events generate() has yielded so far
    calls,      \* trace of the functions invoked during the run
    log,        \* the logger.warning / logger.error entries written
    toolCalls,  \* tool calls the running agent has made so far
    fin,        \* input of the function under test (function specifications)
    fout        \* its output

envVars == <<focus, cfg, body, fin, fout>>
pipeVars == <<focus, cfg, body, http, connected, alert, opc, triage, investigation,
              rca, rcaTier, fetch, handles, events, calls, log, toolCalls>>
funVars == <<fin, fout>>
vars == <<focus, cfg, body, http, connected, alert, opc, triage, investigation,
          rca, rcaTier, fetch, handles, events, calls, log, toolCalls, fin, fout>>

-----------------------------------------------------------------------------
\* Wrapped JSON values.

Num(n) == [k |-> "num", n |-> n]
AbsentV == [k |-> "absent", n |-> 0]
NullV == [k |-> "null", n |-> 0]
StrV == [k |-> "str", n |-> 0]

IsNum(v) == v.k = "num"

\* A string field that the JSON object does not carry.
Missing == "<missing>"

-----------------------------------------------------------------------------
\* aria/types.py: AlertPayload

\* A model whose service field is optional.
AlertValidServiceOptional(b) ==
    /\ b.incidentId # Missing
    /\ b.summary # Missing
    /\ b.startedAt # Missing
    /\ IsNum(b.p99LatencyMs)
    /\ IsNum(b.errorRatePct)

\* AlertPayload(**body): pydantic raises ValidationError unless every required
\* field is present with its type.
AlertValid(b) ==
    /\ b.incidentId # Missing
    /\ b.service # Missing
    /\ b.summary # Missing
    /\ b.startedAt # Missing
    /\ IsNum(b.p99LatencyMs)
    /\ IsNum(b.errorRatePct)

AlertPayload(b) ==
    [incidentId |-> b.incidentId, service |-> b.service, summary |-> b.summary,
     p99LatencyMs |-> b.p99LatencyMs.n, errorRatePct |-> b.errorRatePct.n,
     startedAt |-> b.startedAt]

NoAlert ==
    [incidentId |-> Missing, service |-> Missing, summary |-> Missing,
     p99LatencyMs |-> 0, errorRatePct |-> 0, startedAt |-> Missing]

-----------------------------------------------------------------------------
\* aria/agents/triage_agent.py

Sev1ErrorRate == 10
Sev1Latency == 3000
Sev2ErrorRate == 5
Sev2Latency == 2000
DefaultWindow == 30

TriageResult(sev, svc, reason, window) ==
    [severity |-> sev, affectedService |-> svc, urgencyReason |-> reason,
     investigationWindowMinutes |-> window]

NoTriage == TriageResult(Missing, Missing, Missing, 0)

rule_based_no_boundary(a) ==
    IF a.errorRatePct > Sev1ErrorRate \/ a.p99LatencyMs > Sev1Latency
    THEN TriageResult("sev1", a.service, "High customer impact", DefaultWindow)
    ELSE IF a.errorRatePct > Sev2ErrorRate \/ a.p99LatencyMs > Sev2Latency
    THEN TriageResult("sev2", a.service, "Moderate impact", DefaultWindow)
    ELSE TriageResult("sev3", a.service, "Low impact", DefaultWindow)

rule_based(a) ==
    IF a.errorRatePct >= Sev1ErrorRate \/ a.p99LatencyMs >= Sev1Latency
    THEN TriageResult("sev1", a.service, "High customer impact", DefaultWindow)
    ELSE IF a.errorRatePct >= Sev2ErrorRate \/ a.p99LatencyMs >= Sev2Latency
    THEN TriageResult("sev2", a.service, "Moderate impact", DefaultWindow)
    ELSE TriageResult("sev3", a.service, "Low impact", DefaultWindow)

-----------------------------------------------------------------------------
\* The final answer of a remote reasoning call, str(result), as a sequence of
\* tokens: an opening brace, a closing brace, prose, or the members of one JSON
\* object (d is the object they denote).

LB == [t |-> "lb", d |-> <<>>]
RB == [t |-> "rb", d |-> <<>>]
W == [t |-> "w", d |-> <<>>]
M(d) == [t |-> "m", d |-> <<d>>]

\* str.find / str.rfind of a token, 1-based; 0 when there is none (Python's -1).
Find(text, t) ==
    IF \E i \in 1..Len(text) : text[i].t = t
    THEN CHOOSE i \in 1..Len(text) :
            text[i].t = t /\ \A j \in 1..(i - 1) : text[j].t # t
    ELSE 0

RFind(text, t) ==
    IF \E i \in 1..Len(text) : text[i].t = t
    THEN CHOOSE i \in 1..Len(text) :
            text[i].t = t /\ \A j \in (i + 1)..Len(text) : text[j].t # t
    ELSE 0

\* json.loads of a token sequence: an object is "{" "}" or "{" members "}";
\* everything else raises JSONDecodeError.
JsonNone == [kind |-> "none", d |-> <<>>]

JsonLoads(s) ==
    IF Len(s) = 2 /\ s[1].t = "lb" /\ s[2].t = "rb"
    THEN [kind |-> "empty", d |-> <<>>]
    ELSE IF Len(s) = 3 /\ s[1].t = "lb" /\ s[2].t = "m" /\ s[3].t = "rb"
    THEN [kind |-> "obj", d |-> s[2].d]
    ELSE JsonNone

\* _extract_json: the slice from the first "{" to the last "}".
extract_json(text) ==
    LET start == Find(text, "lb")
        end == RFind(text, "rb")
    IN  IF start = 0 \/ end = 0
        THEN JsonNone
        ELSE JsonLoads(SubSeq(text, start, end))

\* Python truthiness of the dict | None that _extract_json returns.
Truthy(j) == j.kind = "obj"

\* What a remote reasoning call does: it raises, or it returns a text.
Raises == [raises |-> TRUE, text |-> <<>>]
Answers(text) == [raises |-> FALSE, text |-> text]

\* The answers tried for a set D of JSON objects: an exception, prose only, an
\* empty object, each object of D bare and wrapped in prose, and an object
\* followed by prose holding a stray closing brace.
RemoteOutcomes(D) ==
    {Raises, Answers(<<W>>), Answers(<<LB, RB>>)}
    \cup {Answers(<<LB, M(d), RB>>) : d \in D}
    \cup {Answers(<<W, LB, M(d), RB, W>>) : d \in D}
    \cup {Answers(<<LB, M(d), RB, W, RB>>) : d \in D}

-----------------------------------------------------------------------------
\* triage_agent._run_strands

\* TriageResult(**data): severity, affectedService and urgencyReason are required
\* strings; investigationWindowMinutes is an int that defaults to 30.
TriageDataValid(d) ==
    /\ d.severity # Missing
    /\ d.affectedService # Missing
    /\ d.urgencyReason # Missing
    /\ d.investigationWindowMinutes.k \in {"num", "absent"}

TriageFromData(d) ==
    TriageResult(d.severity, d.affectedService, d.urgencyReason,
                 IF d.investigationWindowMinutes.k = "absent"
                 THEN DefaultWindow
                 ELSE d.investigationWindowMinutes.n)

\* A tier's outcome: res holds the result (empty: None), logs the entries the
\* tier wrote to its logger.
TierNone(logs) == [res |-> <<>>, logs |-> logs]
TierSome(r) == [res |-> <<r>>, logs |-> <<>>]

\* A first tier that builds its result from whatever object the answer holds.
triage_run_strands_unvalidated(a, out) ==
    IF out.raises
    THEN TierNone(<<"Strands triage failed">>)
    ELSE LET data == extract_json(out.text)
         IN  IF Truthy(data) THEN TierSome(TriageFromData(data.d[1])) ELSE TierNone(<<>>)

triage_run_strands(a, out) ==
    IF out.raises
    THEN TierNone(<<"Strands triage failed">>)
    ELSE LET data == extract_json(out.text)
         IN  IF ~Truthy(data)
             THEN TierNone(<<>>)
             ELSE IF TriageDataValid(data.d[1])
             THEN TierSome(TriageFromData(data.d[1]))
             ELSE TierNone(<<"Strands triage failed">>)

-----------------------------------------------------------------------------
\* A call that may raise: val holds the returned value (empty when it raised).

Raised == [raised |-> TRUE, val |-> <<>>]
Returned(v) == [raised |-> FALSE, val |-> <<v>>]

\* Wrapped JSON lists.
List(s) == [k |-> "list", v |-> s]
AbsentL == [k |-> "absent", v |-> <<>>]
NullL == [k |-> "null", v |-> <<>>]

-----------------------------------------------------------------------------
\* aria/mock_data.py

DatadogEvidence(errors, metrics, mode, notes) ==
    [topErrors |-> errors, metricsSummary |-> metrics, connectorMode |-> mode,
     notes |-> notes]

NoEvidence == DatadogEvidence(<<>>, Missing, Missing, <<>>)

MockNote == "Mock evidence"

mock_datadog_evidence(service) ==
    DatadogEvidence(
        << "FATAL [" \o service \o "] Connection pool exhausted",
           "ERROR [" \o service \o "] DB query timeout",
           "ERROR [" \o service \o "] Retry storm" >>,
        "DB connections 100/100 (saturated)", "mock", <<MockNote>>)

DependencyGraphResult(impacted, upstream, mode) ==
    [impactedServices |-> impacted, upstreamServices |-> upstream,
     connectorMode |-> mode]

NoGraph == DependencyGraphResult(<<>>, <<>>, Missing)

\* A fixture that knows no service by name.
mock_dependency_graph_generic(service) ==
    DependencyGraphResult(<<"client-of-" \o service>>,
                          <<"upstream-db-for-" \o service>>, "mock")

mock_dependency_graph(service) ==
    IF service = "payment-svc"
    THEN DependencyGraphResult(<<"checkout-svc", "order-api", "fraud-detection-svc">>,
                               <<"orders-db", "redis-cache">>, "mock")
    ELSE DependencyGraphResult(<<"client-of-" \o service>>,
                               <<"upstream-db-for-" \o service>>, "mock")

Runbook(title, steps, score) ==
    [title |-> title, steps |-> steps, similarityScore |-> score]

mock_runbooks(service) ==
    IF service = "payment-svc"
    THEN << Runbook("Payment DB Pool Saturation Playbook",
                    << "Increase orders-db pool max from 100 to 200.",
                       "Enable circuit breaker for optional downstream calls.",
                       "Set fail-fast timeout to 750ms on DB acquire path." >>, 93),
            Runbook("Retry Storm Containment SOP",
                    << "Apply exponential backoff with jitter on payment retries.",
                       "Cap in-flight DB requests at safe concurrency threshold.",
                       "Disable non-critical synchronous enrichments temporarily." >>, 86) >>
    ELSE << Runbook(service \o " Incident Baseline Runbook",
                    << "Scale " \o service \o " replicas by 2x.",
                       "Enable circuit breaker for unstable dependencies.",
                       "Verify recovery in p95/p99 and 5xx error rate." >>, 70) >>

-----------------------------------------------------------------------------
\* aria/connectors/datadog.py

\* now - timedelta(minutes=window_minutes) raises OverflowError once the window
\* reaches back before datetime.min (year 1).
MaxWindowMinutes == 1065000000
LogCap == 8

WindowOverflows(w) == w > MaxWindowMinutes

Min(a, b) == IF a < b THEN a ELSE b

\* What the Datadog backend does with the live query: ok = FALSE stands for a
\* raise, a timeout or an error status; items are the messages of the returned
\* log events (Missing: the event carries no message).
DdFail == [ok |-> FALSE, items |-> <<>>]
DdOk(items) == [ok |-> TRUE, items |-> items]

LiveMessage(m) == IF m = Missing THEN "Unknown log line" ELSE m

\* fetch_evidence(service, window_minutes): res is the call's outcome, logs the
\* entries written to the logger.
fetch_evidence(live, service, window, dd) ==
    IF ~live
    THEN [res |-> Returned(mock_datadog_evidence(service)), logs |-> <<>>]
    ELSE IF WindowOverflows(window)
    THEN [res |-> Raised, logs |-> <<>>]
    ELSE IF dd.ok
    THEN LET n == Min(Len(dd.items), LogCap)
             top == [i \in 1..n |-> LiveMessage(dd.items[i])]
         IN  [res |-> Returned(DatadogEvidence(top,
                         "Live query returned " \o ToString(n) \o " error events in "
                             \o ToString(window) \o "m window.",
                         "live", <<>>)),
              logs |-> <<>>]
    ELSE LET fallback == mock_datadog_evidence(service)
         IN  [res |-> Returned([fallback EXCEPT
                         !.notes = fallback.notes \o <<"Live query failed">>]),
              logs |-> <<"Datadog live query failed">>]

-----------------------------------------------------------------------------
\* aria/connectors/neo4j.py

\* What the Neo4j side does when asked: ctor is whether GraphDatabase.driver
\* constructs, ok whether the session and both queries succeed, impacted and
\* upstream the distinct service names returned.
NeoCtorFail == [ctor |-> FALSE, ok |-> FALSE, impacted |-> <<>>, upstream |-> <<>>]
NeoQueryFail == [ctor |-> TRUE, ok |-> FALSE, impacted |-> <<>>, upstream |-> <<>>]
NeoOk(impacted, upstream) ==
    [ctor |-> TRUE, ok |-> TRUE, impacted |-> impacted, upstream |-> upstream]

\* _get_driver(): constructs the driver when the global is None; raises when
\* construction raises, leaving the global None.
get_driver(driver, neo) ==
    IF driver \/ neo.ctor
    THEN [raised |-> FALSE, driver |-> TRUE]
    ELSE [raised |-> TRUE, driver |-> FALSE]

\* fetch_blast_radius(service): _get_driver() is called outside the try.
fetch_blast_radius(live, service, driver, neo) ==
    IF ~live
    THEN [res |-> Returned(mock_dependency_graph(service)), driver |-> driver,
          logs |-> <<>>]
    ELSE LET d == get_driver(driver, neo)
         IN  IF d.raised
             THEN [res |-> Raised, driver |-> d.driver, logs |-> <<>>]
             ELSE IF neo.ok
             THEN [res |-> Returned(DependencyGraphResult(neo.impacted, neo.upstream, "live")),
                   driver |-> d.driver, logs |-> <<>>]
             ELSE [res |-> Returned(mock_dependency_graph(service)),
                   driver |-> d.driver, logs |-> <<"Neo4j query failed">>]

-----------------------------------------------------------------------------
\* aria/connectors/mongodb.py

\* What the MongoDB side does: ctor is whether MongoClient constructs, ok
\* whether the query succeeds, wellFormed whether every returned document
\* builds a Runbook, docs the runbooks the documents describe.
MongoCtorFail == [ctor |-> FALSE, ok |-> FALSE, wellFormed |-> FALSE, docs |-> <<>>]
MongoQueryFail == [ctor |-> TRUE, ok |-> FALSE, wellFormed |-> FALSE, docs |-> <<>>]
MongoMalformed(docs) == [ctor |-> TRUE, ok |-> TRUE, wellFormed |-> FALSE, docs |-> docs]
MongoOk(docs) == [ctor |-> TRUE, ok |-> TRUE, wellFormed |-> TRUE, docs |-> docs]

\* A fetch_runbooks that builds its Runbooks after the try.
fetch_runbooks_unguarded(live, service, limit, client, mongo) ==
    IF ~live
    THEN [res |-> Returned(mock_runbooks(service)), client |-> client, logs |-> <<>>]
    ELSE IF ~(client \/ mongo.ctor) \/ ~mongo.ok
    THEN [res |-> Returned(mock_runbooks(service)), client |-> client \/ mongo.ctor,
          logs |-> <<"MongoDB query failed">>]
    ELSE IF mongo.docs = <<>>
    THEN [res |-> Returned(mock_runbooks(service)), client |-> TRUE, logs |-> <<>>]
    ELSE IF mongo.wellFormed
    THEN [res |-> Returned(SubSeq(mongo.docs, 1, Min(Len(mongo.docs), limit))),
          client |-> TRUE, logs |-> <<>>]
    ELSE [res |-> Raised, client |-> TRUE, logs |-> <<>>]

\* fetch_runbooks(service, summary, limit): _collection() and the Runbook
\* construction are inside the try.
fetch_runbooks(live, service, limit, client, mongo) ==
    IF ~live
    THEN [res |-> Returned(mock_runbooks(service)), client |-> client, logs |-> <<>>]
    ELSE IF ~(client \/ mongo.ctor)
    THEN [res |-> Returned(mock_runbooks(service)), client |-> FALSE, logs |-> <<"MongoDB query failed">>]
    ELSE IF ~mongo.ok
    THEN [res |-> Returned(mock_runbooks(service)), client |-> TRUE, logs |-> <<"MongoDB query failed">>]
    ELSE LET docs == SubSeq(mongo.docs, 1, Min(Len(mongo.docs), limit))
         IN  IF docs = <<>>
             THEN [res |-> Returned(mock_runbooks(service)), client |-> TRUE,
                   logs |-> <<>>]
             ELSE IF mongo.wellFormed
             THEN [res |-> Returned(docs), client |-> TRUE, logs |-> <<>>]
             ELSE [res |-> Returned(mock_runbooks(service)), client |-> TRUE,
                   logs |-> <<"MongoDB query failed">>]

-----------------------------------------------------------------------------
\* aria/agents/rca_agent.py

RunbookLimit == 3
PlanCap == 5
PrimarySteps == 3
FallbackPrimaryProbability == 88
FallbackSecondaryProbability == 58
FallbackConfidence == 88

Hypothesis(title, probability, evidence, remediation) ==
    [title |-> title, probability |-> probability, evidence |-> evidence,
     remediation |-> remediation]

RcaDict(hyps, blast, runbooks, plan, confidence, narrative) ==
    [hypotheses |-> hyps, blastRadius |-> blast, runbooks |-> runbooks,
     recommendedPlan |-> plan, confidence |-> confidence, narrative |-> narrative]

NoRca == RcaDict(AbsentL, AbsentL, AbsentL, AbsentL, AbsentV, Missing)

Contains(s, x) == \E i \in 1..Len(s) : s[i] = x

\* A loop iteration that does not look at the length of the plan.
AddStepNoCap(plan, step, capped) ==
    IF ~Contains(plan, step) THEN Append(plan, step) ELSE plan

\* A loop iteration that does not look at seen.
AddStepNoSeen(plan, step, capped) ==
    IF ~capped \/ Len(plan) < PlanCap THEN Append(plan, step) ELSE plan

\* The "for step in ...: if step not in seen [and len(plan) < 5]" loops: append
\* each step of steps that plan does not hold yet, while capped is off or the
\* plan has fewer than PlanCap entries.  One loop iteration:
AddStep(plan, step, capped) ==
    IF ~Contains(plan, step) /\ (~capped \/ Len(plan) < PlanCap)
    THEN Append(plan, step)
    ELSE plan

\* The loop over steps; each intermediate plan is bound as a value.
RECURSIVE AddSteps(_, _, _)
AddSteps(plan, steps, capped) ==
    IF steps = <<>>
    THEN plan
    ELSE CHOOSE r \in {AddSteps(p, t, capped) :
                          p \in {AddStep(plan, Head(steps), capped)},
                          t \in {Tail(steps)}} : TRUE

\* "for runbook in runbooks: for step in runbook.steps:"
RECURSIVE AddRunbooks(_, _)
AddRunbooks(plan, runbooks) ==
    IF runbooks = <<>>
    THEN plan
    ELSE CHOOSE r \in {AddRunbooks(p, t) :
                          p \in {AddSteps(plan, Head(runbooks).steps, TRUE)},
                          t \in {Tail(runbooks)}} : TRUE

build_fallback(a, inv, runbooks, blast) ==
    LET top_error == IF inv.topErrors # <<>> THEN inv.topErrors[1] ELSE "No top error"
        hasPrimary == runbooks # <<>>
        primarySteps == IF hasPrimary THEN runbooks[1].steps ELSE <<>>
        remediation ==
            IF hasPrimary /\ primarySteps # <<>>
            THEN SubSeq(primarySteps, 1, Min(Len(primarySteps), PrimarySteps))
            ELSE <<"Increase DB pool limit.", "Add circuit breaker.">>
        h1 == Hypothesis("Database connection pool saturation",
                Num(FallbackPrimaryProbability),
                List(<< "Primary error: " \o top_error,
                        "Error rate " \o ToString(a.errorRatePct) \o "% and p99 "
                            \o ToString(a.p99LatencyMs) \o "ms consistent with saturation.",
                        IF hasPrimary
                        THEN "Matched runbook: " \o runbooks[1].title
                        ELSE "No matching runbook found." >>),
                List(remediation))
        h2 == Hypothesis("Downstream DB latency amplified by retry storm",
                Num(FallbackSecondaryProbability),
                List(<< "Retries and timeouts increase queue depth under contention.",
                        "Trace summary shows DB wait dominates execution time." >>),
                List(<< "Throttle retries with jitter.",
                        "Cap concurrent in-flight DB operations." >>))
        plan == AddRunbooks(AddSteps(<<>>, remediation, FALSE), runbooks)
    IN  RcaDict(List(<<h1, h2>>), List(blast), List(runbooks), List(plan),
                Num(FallbackConfidence), "Primary signal points to datastore saturation")

\* key=lambda h: -h.get("probability", 0): the probability, 0 when the key is
\* absent; negating anything but a number raises TypeError.
KeyRaises(h) == h.probability.k \in {"str", "null"}
SortProb(h) == IF h.probability.k = "num" THEN h.probability.n ELSE 0

\* sorted(hyps, key=...) is stable: among equal keys the input order is kept.
InsertSorted(s, h) ==
    LET pos == Cardinality({i \in 1..Len(s) : SortProb(s[i]) >= SortProb(h)})
    IN  SubSeq(s, 1, pos) \o <<h>> \o SubSeq(s, pos + 1, Len(s))

RECURSIVE SortedByProbability(_)
SortedByProbability(s) ==
    IF s = <<>>
    THEN <<>>
    ELSE InsertSorted(SortedByProbability(SubSeq(s, 1, Len(s) - 1)), s[Len(s)])

\* sorted(...) of the hypotheses value: raises when the value is not a list or
\* when a key raises.
SortRaises(hyps) ==
    \/ hyps.k # "list"
    \/ \E i \in 1..Len(hyps.v) : KeyRaises(hyps.v[i])

NoSort(s) == s

HypothesesOrder(s) == SortedByProbability(s)

KeepEcho(result, graph, runbooks) == result

\* The overwrite of blastRadius and runbooks with the values fetched up front.
OverwriteFetched(result, graph, runbooks) ==
    [result EXCEPT !.blastRadius = List(graph.impactedServices),
                   !.runbooks = List(runbooks)]

\* Lines 131-135 and 148-152 of RCAAgent.run: what accepting a remote result
\* does: it raises when sorted raises, and returns the dict otherwise.
Accept(result, graph, runbooks) ==
    IF SortRaises(result.hypotheses)
    THEN Raised
    ELSE Returned([OverwriteFetched(result, graph, runbooks) EXCEPT
                     !.hypotheses = List(HypothesesOrder(result.hypotheses.v))])

\* "if data and 'hypotheses' in data" / "if synthesized and 'hypotheses' in synthesized"
HasHypotheses(j) == Truthy(j) /\ j.d[1].hypotheses.k # "absent"

\* A tier 1 whose answer is never taken.
rca_run_strands_discarded(out) == TierNone(<<>>)

\* rca_agent._run_strands once the agent call is over.
rca_run_strands(out) ==
    IF out.raises
    THEN TierNone(<<"Strands RCA failed">>)
    ELSE LET data == extract_json(out.text)
         IN  IF HasHypotheses(data) THEN TierSome(data.d[1]) ELSE TierNone(<<>>)

\* bedrock.synthesize_rca: when the boto3 call raises, _invoke logs a warning,
\* then either tries the bearer token or logs "Bedrock unavailable", and
\* returns "" when that fails too (a second entry); a text is parsed as in
\* _extract_json.  An empty dict is returned as it is (falsy for the caller).
synthesize_rca(out) ==
    IF out.raises
    THEN TierNone(<<"Bedrock boto3 invoke failed", "Bedrock unavailable">>)
    ELSE LET data == extract_json(out.text)
         IN  IF Truthy(data) THEN TierSome(data.d[1]) ELSE TierNone(<<>>)

-----------------------------------------------------------------------------
\* aria/agents/investigation_agent.py

\* DatadogEvidence(**data): topErrors, metricsSummary and connectorMode are
\* required; notes defaults to [].
EvidenceDataValid(d) ==
    /\ d.topErrors.k = "list"
    /\ d.metricsSummary # Missing
    /\ d.connectorMode # Missing
    /\ d.notes.k \in {"list", "absent"}

EvidenceFromData(d) ==
    DatadogEvidence(d.topErrors.v, d.metricsSummary, d.connectorMode, d.notes.v)

\* investigation_agent._run_strands once the agent call is over: a text that
\* does not parse into a DatadogEvidence is passed over without a log entry.
inv_run_strands(out) ==
    IF out.raises
    THEN TierNone(<<"Strands investigation failed">>)
    ELSE LET data == extract_json(out.text)
         IN  IF Truthy(data) /\ EvidenceDataValid(data.d[1])
             THEN TierSome(EvidenceFromData(data.d[1]))
             ELSE TierNone(<<>>)

-----------------------------------------------------------------------------

\* "hypotheses" in data
HypothesesPresent(d) == d.hypotheses.k # "absent"

\* How a remote tier's call ended, as the call trace records it: it raised, its
\* answer holds no {...}, the slice does not parse, the parsed object is empty
\* or fails the tier's validation (Valid), or the object is valid.

TierEnding(tier, out) ==
    LET Valid(d) == CASE tier = "triage._run_strands" -> TriageDataValid(d)
                      [] tier = "investigation._run_strands" -> EvidenceDataValid(d)
                      [] OTHER -> HypothesesPresent(d)
    IN  IF out.raises THEN "raised"
        ELSE IF Find(out.text, "lb") = 0 \/ RFind(out.text, "rb") = 0 THEN "absent"
        ELSE LET j == extract_json(out.text)
             IN  IF j.kind = "none" THEN "unparseable"
                 ELSE IF j.kind = "empty" THEN "invalid"
                 ELSE IF Valid(j.d[1]) THEN "valid" ELSE "invalid"

FailedEndings == {"raised", "absent", "unparseable", "invalid"}

TierReturn(tier, ending) == tier \o " -> " \o ending


-----------------------------------------------------------------------------
\* Bounds and the inputs drawn from them.
\*
\* A run exercises one part with the full range of its backends' behaviours
\* (focus); in the other parts a remote call either raises or gives one
\* well-formed answer, and a connector backend either fails or answers.

MaxHyps == 2
MaxToolCalls == 1

Focuses == {"triage", "investigation", "connectors", "rca"}

\* connector_live for the four connectors: the synthesis backend on or off, the
\* three data connectors all live or all offline.
Configs ==
    { [bedrock |-> b, datadog |-> l, neo4j |-> l, mongodb |-> l] : b, l \in BOOLEAN }

DemoBody ==
    [incidentId |-> "inc-2026-02-20-payment-latency", service |-> "payment-svc",
     summary |-> "Payment service p99 latency at 4.2s and error rate at 12%",
     p99LatencyMs |-> Num(4200), errorRatePct |-> Num(12), startedAt |-> "t0"]

Bodies ==
    { DemoBody,
      [DemoBody EXCEPT !.service = "search-svc", !.p99LatencyMs = Num(1500),
                       !.errorRatePct = Num(2)],
      [DemoBody EXCEPT !.service = Missing],
      [DemoBody EXCEPT !.errorRatePct = StrV] }

BasicOutcomes(d) == {Raises, Answers(<<LB, M(d), RB>>)}

TriageAnswer(sev, window) ==
    [severity |-> sev, affectedService |-> "payment-svc", urgencyReason |-> "r",
     investigationWindowMinutes |-> window]

TriageData ==
    { TriageAnswer("sev2", Num(15)),
      TriageAnswer("critical", AbsentV),
      TriageAnswer("sev1", Num(2000000000)),
      TriageAnswer(Missing, Num(30)),
      TriageAnswer("sev3", StrV) }

TriageOutcomes ==
    IF focus = "triage"
    THEN RemoteOutcomes(TriageData)
    ELSE BasicOutcomes(TriageAnswer("sev2", Num(15)))

EvidenceAnswer(errors, mode, notes) ==
    [topErrors |-> errors, metricsSummary |-> "m", connectorMode |-> mode,
     notes |-> notes]

EvidenceData ==
    { EvidenceAnswer(List(<<"ERROR relayed by the agent">>), "live", AbsentL),
      EvidenceAnswer(List(<<>>), "mock", List(<<MockNote>>)),
      EvidenceAnswer(AbsentL, "live", AbsentL) }

EvidenceOutcomes ==
    IF focus = "investigation"
    THEN RemoteOutcomes(EvidenceData)
    ELSE BasicOutcomes(EvidenceAnswer(List(<<"ERROR relayed by the agent">>),
                                      "live", AbsentL))

LiveLogs == <<"live log line", Missing>>

DdBehaviours ==
    { DdFail, DdOk(<<>>), DdOk(LiveLogs),
      DdOk([i \in 1..(LogCap + 1) |-> "live log line"]) }

DdOutcomes ==
    IF focus \in {"investigation", "connectors"}
    THEN DdBehaviours
    ELSE { DdFail, DdOk(LiveLogs) }

LiveGraph == NeoOk(<<"ledger-svc", "checkout-svc">>, <<"orders-db">>)

NeoBehaviours == { NeoCtorFail, NeoQueryFail, LiveGraph, NeoOk(<<>>, <<>>) }

NeoOutcomes ==
    IF focus = "connectors" THEN NeoBehaviours ELSE { NeoQueryFail, LiveGraph }

LiveRunbooks ==
    << Runbook("Live runbook",
               << "Restart the pool.", "Restart the pool.", "Page the owner." >>, 91) >>

MongoBehaviours ==
    { MongoCtorFail, MongoQueryFail, MongoOk(<<>>), MongoOk(LiveRunbooks),
      MongoOk(LiveRunbooks \o LiveRunbooks), MongoMalformed(LiveRunbooks) }

MongoOutcomes ==
    IF focus = "connectors"
    THEN MongoBehaviours \ {MongoOk(LiveRunbooks \o LiveRunbooks)}
    ELSE { MongoQueryFail, MongoOk(LiveRunbooks) }

\* Hypotheses a remote answer may list: probabilities 0.3 and 0.9, no
\* probability key, and a probability that is not a number.
RemoteHyp(title, probability) ==
    Hypothesis(title, probability, List(<<"e">>), List(<<"fix " \o title>>))

RatedHypotheses == { RemoteHyp("low", Num(30)), RemoteHyp("high", Num(90)) }

RatedLists == UNION { [1..n -> RatedHypotheses] : n \in 0..MaxHyps }

EchoedBlast == <<"made-up-svc">>
EchoedRunbooks == << Runbook("Made-up runbook", <<"Do nothing.">>, 10) >>

RemoteRca(hyps, confidence) ==
    RcaDict(hyps, List(EchoedBlast), List(EchoedRunbooks),
            List(<<"fix high", "fix high">>), confidence, "n")

GoodRca == RemoteRca(List(<<RemoteHyp("low", Num(30)), RemoteHyp("high", Num(90))>>), Num(75))

RcaData ==
    { RemoteRca(List(h), Num(75)) : h \in RatedLists }
    \cup { RemoteRca(List(<<RemoteHyp("low", Num(30)), RemoteHyp("unrated", AbsentV),
                           RemoteHyp("high", Num(90))>>), Num(75)),
           RemoteRca(List(<<RemoteHyp("worded", StrV)>>), Num(75)),
           RemoteRca(NullL, Num(75)),
           RemoteRca(AbsentL, Num(75)),
           RemoteRca(List(<<>>), AbsentV),
           RemoteRca(List(<<>>), NullV),
           RemoteRca(List(<<>>), StrV),
           [GoodRca EXCEPT !.blastRadius = AbsentL, !.runbooks = AbsentL] }

RcaOutcomes ==
    IF focus = "rca" THEN RemoteOutcomes(RcaData) ELSE BasicOutcomes(GoodRca)

-----------------------------------------------------------------------------
\* aria/orchestrator.py and main.py: events

StepEvent(agent, status, payload) ==
    [type |-> "step", agent |-> agent, status |-> status, payload |-> payload]
ReportEvent(report) ==
    [type |-> "report", agent |-> "-", status |-> "-", payload |-> report]
\* main.py 95: the message is str(exc)
ErrorEvent(message) ==
    [type |-> "error", agent |-> "-", status |-> "-", payload |-> message]

\* str(exc) of the exceptions that can leave orchestrator.run.
OverflowInFetchEvidence == "fetch_evidence: OverflowError (date value out of range)"
DriverConstructionFailed == "fetch_blast_radius: GraphDatabase.driver raised"
SortedRaised == "RCAAgent.run: TypeError in sorted(hypotheses)"
ConfidenceNotANumber == "AriaOrchestrator.run: confidence is not a number"

NoPayload == <<>>

NoFetch ==
    [graph |-> "idle", runbooks |-> "idle", graphRes |-> NoGraph, runbooksRes |-> <<>>]

PipeInit ==
    /\ focus \in Focuses
    /\ cfg \in Configs
    /\ body \in Bodies
    /\ http = "pending"
    /\ connected = TRUE
    /\ alert = NoAlert
    /\ opc = "none"
    /\ triage = NoTriage
    /\ investigation = NoEvidence
    /\ rca = NoRca
    /\ rcaTier = 0
    /\ fetch = NoFetch
    /\ handles = [neo4j |-> FALSE, mongodb |-> FALSE]
    /\ events = <<>>
    /\ calls = <<>>
    /\ log = <<>>
    /\ toolCalls = 0

Init ==
    /\ PipeInit
    /\ fin = <<>>
    /\ fout = <<>>

\* The generator yields e and suspends at pc.
Yield(e, pc) ==
    /\ events' = Append(events, e)
    /\ opc' = pc

\* The exception leaves orchestrator.run and generate() as well.
RaiseUncaught(message) ==
    /\ opc' = "y_error"
    /\ UNCHANGED events

\* The error event is yielded and the pipeline carries on to its report.
RaiseAndContinue(message) ==
    /\ events' = Append(events, ErrorEvent(message))
    /\ opc' = "y_rca_completed"

\* main.py 93-95: an exception leaves orchestrator.run; generate() catches it
\* and yields the error event.
RaiseToGenerate(message) ==
    /\ events' = Append(events, ErrorEvent(message))
    /\ opc' = "y_error"

\* The consumer of the stream asks for the next chunk: the generator suspended
\* at a yield only resumes then.
Resumed(pc) ==
    /\ http = "streaming"
    /\ connected
    /\ opc = pc

\* An awaited thread has returned and the event loop resumes the coroutine.
Awaiting(pc) ==
    /\ http = "streaming"
    /\ opc = pc

\* main.py 84-88: AlertPayload(**body) raises before generate() exists.
Ingest ==
    /\ http = "pending"
    /\ IF AlertValid(body)
       THEN /\ alert' = AlertPayload(body)
            /\ http' = "streaming"
            /\ opc' = "start"
       ELSE /\ http' = "rejected"
            /\ UNCHANGED <<alert, opc>>
    /\ UNCHANGED <<envVars, connected, triage, investigation, rca, rcaTier, fetch,
                   handles, events, calls, log, toolCalls>>

\* orchestrator.py 34
RunStart ==
    /\ Resumed("start")
    /\ Yield(StepEvent("triage", "running", NoPayload), "y_triage_running")
    /\ UNCHANGED <<envVars, http, connected, alert, triage, investigation, rca,
                   rcaTier, fetch, handles, calls, log, toolCalls>>

TriageCompleted(t) ==
    /\ triage' = t
    /\ Yield(StepEvent("triage", "completed",
                [severity |-> t.severity,
                 investigationWindowMinutes |-> t.investigationWindowMinutes]),
             "y_triage_completed")

\* A TriageAgent.run that tries the remote tier whatever the configuration.
TriageStartUngated ==
    /\ Resumed("y_triage_running")
    /\ opc' = "await_triage_strands"
    /\ calls' = Append(calls, "triage._run_strands")
    /\ UNCHANGED <<triage, events>>
    /\ UNCHANGED <<envVars, http, connected, alert, investigation, rca, rcaTier,
                   fetch, handles, log, toolCalls>>

\* orchestrator.py 35 into TriageAgent.run (triage_agent.py 66-71)
TriageStart ==
    /\ Resumed("y_triage_running")
    /\ IF cfg.bedrock
       THEN /\ opc' = "await_triage_strands"
            /\ calls' = Append(calls, "triage._run_strands")
            /\ UNCHANGED <<triage, events>>
       ELSE /\ TriageCompleted(rule_based(alert))
            /\ calls' = Append(calls, "triage._rule_based")
    /\ UNCHANGED <<envVars, http, connected, alert, investigation, rca, rcaTier,
                   fetch, handles, log, toolCalls>>

\* triage_agent.py 68-71, then orchestrator.py 36-44
TriageStrandsReturn ==
    /\ Awaiting("await_triage_strands")
    /\ \E out \in TriageOutcomes :
         LET r == triage_run_strands(alert, out)
             ret == TierReturn("triage._run_strands", TierEnding("triage._run_strands", out))
         IN  /\ log' = log \o r.logs
             /\ IF r.res # <<>>
                THEN /\ TriageCompleted(r.res[1])
                     /\ calls' = Append(calls, ret)
                ELSE /\ TriageCompleted(rule_based(alert))
                     /\ calls' = calls \o <<ret, "triage._rule_based">>
    /\ UNCHANGED <<envVars, http, connected, alert, investigation, rca, rcaTier,
                   fetch, handles, toolCalls>>

\* orchestrator.py 47
InvestigationRunning ==
    /\ Resumed("y_triage_completed")
    /\ Yield(StepEvent("investigation", "running", NoPayload), "y_investigation_running")
    /\ UNCHANGED <<envVars, http, connected, alert, triage, investigation, rca,
                   rcaTier, fetch, handles, calls, log, toolCalls>>

\* A completed step that reports the offline mode whatever the evidence says.
InvestigationCompletedMock(ev) ==
    /\ investigation' = ev
    /\ Yield(StepEvent("investigation", "completed", [datadogMode |-> "mock"]),
             "y_investigation_completed")

InvestigationCompleted(ev) ==
    /\ investigation' = ev
    /\ Yield(StepEvent("investigation", "completed",
                [datadogMode |-> ev.connectorMode]),
             "y_investigation_completed")

\* orchestrator.py 48 into InvestigationAgent.run (investigation_agent.py 60-67)
InvestigationStart ==
    /\ Resumed("y_investigation_running")
    /\ IF cfg.bedrock
       THEN /\ opc' = "await_investigation_strands"
            /\ calls' = Append(calls, "investigation._run_strands")
       ELSE /\ opc' = "await_fetch_evidence"
            /\ calls' = Append(calls, "datadog.fetch_evidence")
    /\ toolCalls' = 0
    /\ UNCHANGED <<envVars, http, connected, alert, triage, investigation, rca,
                   rcaTier, fetch, handles, events, log>>

\* investigation_agent.py 19-23: the agent calls its fetch_datadog_logs tool,
\* with the service and the window it chooses.
InvestigationToolCall ==
    /\ Awaiting("await_investigation_strands")
    /\ focus = "investigation"
    /\ toolCalls < MaxToolCalls
    /\ \E dd \in DdOutcomes, w \in {DefaultWindow, triage.investigationWindowMinutes} :
         LET f == fetch_evidence(cfg.datadog, alert.service, w, dd)
         IN  log' = log \o f.logs
    /\ toolCalls' = toolCalls + 1
    /\ calls' = Append(calls, "tool.datadog.fetch_evidence")
    /\ UNCHANGED <<envVars, http, connected, alert, opc, triage, investigation, rca,
                   rcaTier, fetch, handles, events>>

\* investigation_agent.py 62-64
InvestigationStrandsReturn ==
    /\ Awaiting("await_investigation_strands")
    /\ \E out \in EvidenceOutcomes :
         LET r == inv_run_strands(out)
             ret == TierReturn("investigation._run_strands",
                               TierEnding("investigation._run_strands", out))
         IN  /\ log' = log \o r.logs
             /\ IF r.res # <<>>
                THEN /\ InvestigationCompleted(r.res[1])
                     /\ calls' = Append(calls, ret)
                ELSE /\ opc' = "await_fetch_evidence"
                     /\ calls' = calls \o <<ret, "datadog.fetch_evidence">>
                     /\ UNCHANGED <<investigation, events>>
    /\ UNCHANGED <<envVars, http, connected, alert, triage, rca, rcaTier, fetch,
                   handles, toolCalls>>

\* investigation_agent.py 67-68, then orchestrator.py 49-56
FetchEvidenceReturn ==
    /\ Awaiting("await_fetch_evidence")
    /\ \E dd \in DdOutcomes :
         LET f == fetch_evidence(cfg.datadog, alert.service,
                                 triage.investigationWindowMinutes, dd)
         IN  /\ log' = log \o f.logs
             /\ IF f.res.raised
                THEN /\ RaiseToGenerate(OverflowInFetchEvidence)
                     /\ UNCHANGED investigation
                ELSE InvestigationCompleted(f.res.val[1])
    /\ UNCHANGED <<envVars, http, connected, alert, triage, rca, rcaTier, fetch,
                   handles, calls, toolCalls>>

\* An orchestrator that fetches the evidence a second time before the RCA.
RcaRunningRetry ==
    /\ Resumed("y_investigation_completed")
    /\ opc' = "await_fetch_evidence"
    /\ calls' = calls \o <<IF cfg.bedrock THEN "investigation._run_strands"
                            ELSE "datadog.fetch_evidence">>
    /\ UNCHANGED <<envVars, http, connected, alert, triage, investigation, rca,
                   rcaTier, fetch, handles, events, log, toolCalls>>

\* orchestrator.py 59
RcaRunning ==
    /\ Resumed("y_investigation_completed")
    /\ Yield(StepEvent("rca", "running", NoPayload), "y_rca_running")
    /\ UNCHANGED <<envVars, http, connected, alert, triage, investigation, rca,
                   rcaTier, fetch, handles, calls, log, toolCalls>>

\* orchestrator.py 60 into RCAAgent.run (rca_agent.py 122-125): gather starts
\* both to_thread calls before it waits for either.
RcaStart ==
    /\ Resumed("y_rca_running")
    /\ opc' = "await_gather"
    /\ fetch' = [fetch EXCEPT !.graph = "running", !.runbooks = "running"]
    /\ calls' = calls \o <<"neo4j.fetch_blast_radius", "mongodb.fetch_runbooks">>
    /\ toolCalls' = 0
    /\ UNCHANGED <<envVars, http, connected, alert, triage, investigation, rca,
                   rcaTier, handles, events, log>>

\* The worker thread running neo4j_connector.fetch_blast_radius(alert.service).
GraphThread ==
    /\ fetch.graph = "running"
    /\ \E neo \in NeoOutcomes :
         LET f == fetch_blast_radius(cfg.neo4j, alert.service, handles.neo4j, neo)
         IN  /\ log' = log \o f.logs
             /\ handles' = [handles EXCEPT !.neo4j = f.driver]
             /\ fetch' = IF f.res.raised
                         THEN [fetch EXCEPT !.graph = "raised"]
                         ELSE [fetch EXCEPT !.graph = "done", !.graphRes = f.res.val[1]]
    /\ UNCHANGED <<envVars, http, connected, alert, opc, triage, investigation, rca,
                   rcaTier, events, calls, toolCalls>>

\* The worker thread running mongo_connector.fetch_runbooks(service, summary, 3).
RunbooksThread ==
    /\ fetch.runbooks = "running"
    /\ \E mongo \in MongoOutcomes :
         LET f == fetch_runbooks(cfg.mongodb, alert.service, RunbookLimit,
                                 handles.mongodb, mongo)
         IN  /\ log' = log \o f.logs
             /\ handles' = [handles EXCEPT !.mongodb = f.client]
             /\ fetch' = [fetch EXCEPT !.runbooks = "done", !.runbooksRes = f.res.val[1]]
    /\ UNCHANGED <<envVars, http, connected, alert, opc, triage, investigation, rca,
                   rcaTier, events, calls, toolCalls>>

\* orchestrator.py 61: int(rca.get("confidence", 0) * 100) raises on a
\* confidence that is not a number (None * 100, int("0.90.9...")).
ConfidenceRaises(r) == r.confidence.k \in {"null", "str"}

\* RCAAgent.run returned r from the given tier; orchestrator.py 61-71.
\* rca.get("confidence"): None when the dict has no such key.
DictGet(v) == IF v.k = "absent" THEN NullV ELSE v

RcaCompleted(r, tier) ==
    /\ rca' = r
    /\ rcaTier' = tier
    /\ IF ConfidenceRaises(r)
       THEN RaiseToGenerate(ConfidenceNotANumber)
       ELSE Yield(StepEvent("rca", "completed",
                     [confidence |-> DictGet(r.confidence),
                      blastRadiusSize |-> Len(r.blastRadius.v)]),
                  "y_rca_completed")

\* RCAAgent.run accepts a remote result (rca_agent.py 131-135, 148-152).
RcaAccept(result, tier) ==
    LET acc == Accept(result, fetch.graphRes, fetch.runbooksRes)
    IN  IF acc.raised
        THEN /\ RaiseToGenerate(SortedRaised)
             /\ UNCHANGED <<rca, rcaTier>>
        ELSE RcaCompleted(acc.val[1], tier)

RcaFallback ==
    \E r \in {build_fallback(alert, investigation, fetch.runbooksRes,
                              fetch.graphRes.impactedServices)} :
        RcaCompleted(r, 3)

\* A join that waits for the graph only.
GatherReturnEarly ==
    /\ Awaiting("await_gather")
    /\ fetch.graph \in {"raised", "done"}
    /\ IF fetch.graph = "raised"
       THEN /\ RaiseToGenerate(DriverConstructionFailed)
            /\ UNCHANGED <<rca, rcaTier, calls>>
       ELSE IF cfg.bedrock
       THEN /\ opc' = "await_rca_strands"
            /\ calls' = Append(calls, "rca._run_strands")
            /\ UNCHANGED <<rca, rcaTier, events>>
       ELSE /\ RcaFallback
            /\ calls' = Append(calls, "rca._build_fallback")
    /\ UNCHANGED <<envVars, http, connected, alert, triage, investigation, fetch,
                   handles, log, toolCalls>>

\* rca_agent.py 122-127: gather returns both results, or raises as soon as one
\* of the two raised.
GatherReturn ==
    /\ Awaiting("await_gather")
    /\ \/ fetch.graph = "raised"
       \/ fetch.graph = "done" /\ fetch.runbooks = "done"
    /\ IF fetch.graph = "raised"
       THEN /\ RaiseToGenerate(DriverConstructionFailed)
            /\ UNCHANGED <<rca, rcaTier, calls>>
       ELSE IF cfg.bedrock
       THEN /\ opc' = "await_rca_strands"
            /\ calls' = Append(calls, "rca._run_strands")
            /\ UNCHANGED <<rca, rcaTier, events>>
       ELSE /\ RcaFallback
            /\ calls' = Append(calls, "rca._build_fallback")
    /\ UNCHANGED <<envVars, http, connected, alert, triage, investigation, fetch,
                   handles, log, toolCalls>>

\* rca_agent.py 78-88: the agent calls get_blast_radius or get_runbooks, which
\* call the connectors again.
RcaToolGraph ==
    /\ Awaiting("await_rca_strands")
    /\ focus = "rca"
    /\ toolCalls < MaxToolCalls
    /\ \E neo \in NeoOutcomes :
         LET f == fetch_blast_radius(cfg.neo4j, alert.service, handles.neo4j, neo)
         IN  /\ log' = log \o f.logs
             /\ handles' = [handles EXCEPT !.neo4j = f.driver]
    /\ toolCalls' = toolCalls + 1
    /\ calls' = Append(calls, "tool.neo4j.fetch_blast_radius")
    /\ UNCHANGED <<envVars, http, connected, alert, opc, triage, investigation, rca,
                   rcaTier, fetch, events>>

RcaToolRunbooks ==
    /\ Awaiting("await_rca_strands")
    /\ focus = "rca"
    /\ toolCalls < MaxToolCalls
    /\ \E mongo \in MongoOutcomes :
         LET f == fetch_runbooks(cfg.mongodb, alert.service, RunbookLimit,
                                 handles.mongodb, mongo)
         IN  /\ log' = log \o f.logs
             /\ handles' = [handles EXCEPT !.mongodb = f.client]
    /\ toolCalls' = toolCalls + 1
    /\ calls' = Append(calls, "tool.mongodb.fetch_runbooks")
    /\ UNCHANGED <<envVars, http, connected, alert, opc, triage, investigation, rca,
                   rcaTier, fetch, events>>

\* rca_agent.py 129-135
RcaStrandsReturn ==
    /\ Awaiting("await_rca_strands")
    /\ \E out \in RcaOutcomes :
         LET r == rca_run_strands(out)
             ret == TierReturn("rca._run_strands", TierEnding("rca._run_strands", out))
         IN  /\ log' = log \o r.logs
             /\ IF r.res # <<>>
                THEN /\ RcaAccept(r.res[1], 1)
                     /\ calls' = Append(calls, ret)
                ELSE /\ opc' = "await_synthesize_rca"
                     /\ calls' = calls \o <<ret, "bedrock.synthesize_rca">>
                     /\ UNCHANGED <<rca, rcaTier, events>>
    /\ UNCHANGED <<envVars, http, connected, alert, triage, investigation, fetch,
                   handles, toolCalls>>

\* rca_agent.py 146-153
SynthesizeReturn ==
    /\ Awaiting("await_synthesize_rca")
    /\ \E out \in RcaOutcomes :
         LET r == synthesize_rca(out)
             ret == TierReturn("bedrock.synthesize_rca", TierEnding("bedrock.synthesize_rca", out))
         IN  /\ log' = log \o r.logs
             /\ IF r.res # <<>> /\ r.res[1].hypotheses.k # "absent"
                THEN /\ RcaAccept(r.res[1], 2)
                     /\ calls' = Append(calls, ret)
                ELSE /\ RcaFallback
                     /\ calls' = calls \o <<ret, "rca._build_fallback">>
    /\ UNCHANGED <<envVars, http, connected, alert, triage, investigation, fetch,
                   handles, toolCalls>>

Report ==
    [alert |-> alert, triage |-> triage, investigation |-> investigation, rca |-> rca]

\* orchestrator.py 73-81
EmitReport ==
    /\ Resumed("y_rca_completed")
    /\ Yield(ReportEvent(Report), "y_report")
    /\ UNCHANGED <<envVars, http, connected, alert, triage, investigation, rca,
                   rcaTier, fetch, handles, calls, log, toolCalls>>

\* The generator is exhausted after the report; generate() returns and the
\* response ends.
StreamEnd ==
    /\ Resumed("y_report")
    /\ opc' = "done"
    /\ http' = "closed"
    /\ UNCHANGED <<envVars, connected, alert, triage, investigation, rca, rcaTier,
                   fetch, handles, events, calls, log, toolCalls>>

\* main.py 95: nothing follows the error event in generate().
StreamEndAfterError ==
    /\ Resumed("y_error")
    /\ opc' = "failed"
    /\ http' = "closed"
    /\ UNCHANGED <<envVars, connected, alert, triage, investigation, rca, rcaTier,
                   fetch, handles, events, calls, log, toolCalls>>

\* The client goes away while the response is streaming: nothing asks the
\* generator for its next event any more.  (The server may also cancel the task
\* in the middle of a stage: the steps of a stage stay possible, none is forced.)
Disconnect ==
    /\ http = "streaming"
    /\ connected
    /\ connected' = FALSE
    /\ UNCHANGED <<envVars, http, alert, opc, triage, investigation, rca, rcaTier,
                   fetch, handles, events, calls, log, toolCalls>>

Next ==
    \/ Ingest
    \/ RunStart
    \/ TriageStart
    \/ TriageStrandsReturn
    \/ InvestigationRunning
    \/ InvestigationStart
    \/ InvestigationToolCall
    \/ InvestigationStrandsReturn
    \/ FetchEvidenceReturn
    \/ RcaRunning
    \/ RcaStart
    \/ GraphThread
    \/ RunbooksThread
    \/ GatherReturn
    \/ RcaToolGraph
    \/ RcaToolRunbooks
    \/ RcaStrandsReturn
    \/ SynthesizeReturn
    \/ EmitReport
    \/ StreamEnd
    \/ StreamEndAfterError
    \/ Disconnect

Spec == Init /\ [][Next]_vars

\* The run with a client that keeps reading, every awaited call returning
\* and every resumption taking place.
NextConnected ==
    \/ Ingest
    \/ RunStart
    \/ TriageStart
    \/ TriageStrandsReturn
    \/ InvestigationRunning
    \/ InvestigationStart
    \/ InvestigationToolCall
    \/ InvestigationStrandsReturn
    \/ FetchEvidenceReturn
    \/ RcaRunning
    \/ RcaStart
    \/ GraphThread
    \/ RunbooksThread
    \/ GatherReturn
    \/ RcaToolGraph
    \/ RcaToolRunbooks
    \/ RcaStrandsReturn
    \/ SynthesizeReturn
    \/ EmitReport
    \/ StreamEnd
    \/ StreamEndAfterError

FairSpec == Init /\ [][NextConnected]_vars /\ WF_vars(NextConnected)

-----------------------------------------------------------------------------
\* _rule_based applied to alerts around its thresholds.

Around(t) == {t - 1, t, t + 1}

GridAlerts ==
    { [NoAlert EXCEPT !.service = svc, !.errorRatePct = e, !.p99LatencyMs = l] :
        svc \in {"payment-svc", "search-svc"},
        e \in {0} \cup Around(Sev2ErrorRate) \cup Around(Sev1ErrorRate),
        l \in {0} \cup Around(Sev2Latency) \cup Around(Sev1Latency) }

\* The pipeline at rest, for the specifications of single functions.
PipeIdle ==
    /\ focus = "triage"
    /\ cfg = [bedrock |-> FALSE, datadog |-> FALSE, neo4j |-> FALSE, mongodb |-> FALSE]
    /\ body = DemoBody
    /\ http = "pending"
    /\ connected = TRUE
    /\ alert = NoAlert
    /\ opc = "none"
    /\ triage = NoTriage
    /\ investigation = NoEvidence
    /\ rca = NoRca
    /\ rcaTier = 0
    /\ fetch = NoFetch
    /\ handles = [neo4j |-> FALSE, mongodb |-> FALSE]
    /\ events = <<>>
    /\ calls = <<>>
    /\ log = <<>>
    /\ toolCalls = 0

RulesInit ==
    /\ PipeIdle
    /\ fin \in GridAlerts
    /\ fout = <<>>

ApplyRuleBased ==
    /\ fout = <<>>
    /\ fout' = <<rule_based(fin)>>
    /\ UNCHANGED <<pipeVars, fin>>

RulesNext == ApplyRuleBased

RulesSpec == RulesInit /\ [][RulesNext]_vars

-----------------------------------------------------------------------------
\* _build_fallback applied to alerts, evidence and runbook lists.

MaxRunbooks == 3

\* Runbooks whose steps overlap, repeat, are missing, or outnumber the cap.
RunbookPool ==
    { Runbook("A", <<"s1", "s2", "s3", "s4">>, 90),
      Runbook("B", <<"s1", "s5", "s6", "s7">>, 80),
      Runbook("C", <<>>, 70),
      Runbook("D", <<"s8", "s8">>, 60) }

RunbookLists == UNION { [1..n -> RunbookPool] : n \in 0..MaxRunbooks }

FallbackEvidence ==
    { mock_datadog_evidence("payment-svc"),
      DatadogEvidence(<<"one live finding">>, "m", "live", <<>>),
      DatadogEvidence(<<>>, "m", "live", <<>>) }

FallbackInit ==
    /\ PipeIdle
    /\ fin \in [alert : {AlertPayload(DemoBody)}, inv : FallbackEvidence,
                runbooks : RunbookLists, blast : {<<>>, <<"checkout-svc">>}]
    /\ fout = <<>>

ApplyBuildFallback ==
    /\ fout = <<>>
    /\ fout' = <<build_fallback(fin.alert, fin.inv, fin.runbooks, fin.blast)>>
    /\ UNCHANGED <<pipeVars, fin>>

FallbackNext == ApplyBuildFallback

FallbackSpec == FallbackInit /\ [][FallbackNext]_vars

-----------------------------------------------------------------------------
\* The two deterministic tiers called repeatedly on one input while the clock
\* moves: fin is the input and the time now, fout the calls made so far, each
\* with the time it was made at and what it returned.

MaxClock == 2
MaxCalls == 2

RepeatInit ==
    /\ PipeIdle
    /\ fin \in [alert : {AlertPayload(DemoBody),
                         [NoAlert EXCEPT !.service = "search-svc",
                                         !.errorRatePct = Sev2ErrorRate]},
                inv : FallbackEvidence,
                runbooks : {l \in RunbookLists : Len(l) <= 1},
                blast : {<<>>, <<"checkout-svc">>},
                now : {0}]
    /\ fout = <<>>

ClockTick ==
    /\ fin.now < MaxClock
    /\ fin' = [fin EXCEPT !.now = @ + 1]
    /\ UNCHANGED <<pipeVars, fout>>

\* A fallback that writes the time of the call into its narrative.
CallBuildFallbackStamped ==
    /\ Len(fout) < MaxCalls
    /\ fout' = Append(fout,
          [fn |-> "_build_fallback", at |-> fin.now,
           out |-> [build_fallback(fin.alert, fin.inv, fin.runbooks, fin.blast)
                      EXCEPT !.narrative = @ \o " at " \o ToString(fin.now)]])
    /\ UNCHANGED <<pipeVars, fin>>

CallBuildFallback ==
    /\ Len(fout) < MaxCalls
    /\ fout' = Append(fout,
          [fn |-> "_build_fallback", at |-> fin.now,
           out |-> build_fallback(fin.alert, fin.inv, fin.runbooks, fin.blast)])
    /\ UNCHANGED <<pipeVars, fin>>

CallRuleBased ==
    /\ Len(fout) < MaxCalls
    /\ fout' = Append(fout,
          [fn |-> "_rule_based", at |-> fin.now, out |-> rule_based(fin.alert)])
    /\ UNCHANGED <<pipeVars, fin>>

RepeatNext ==
    \/ ClockTick
    \/ CallBuildFallback
    \/ CallRuleBased

RepeatSpec == RepeatInit /\ [][RepeatNext]_vars

-----------------------------------------------------------------------------
\* _extract_json applied to answer texts: fin is the text, a sequence of
\* braces, other words and object members; fout what the extraction returned.

MaxTokens == 5

AnswerTokens == {LB, RB, W, M(TriageAnswer("sev2", Num(15)))}

AnswerTexts == UNION { [1..n -> AnswerTokens] : n \in 0..MaxTokens }

ExtractInit ==
    /\ PipeIdle
    /\ fin \in AnswerTexts
    /\ fout = <<>>

ApplyExtractJson ==
    /\ fout = <<>>
    /\ fout' = <<extract_json(fin)>>
    /\ UNCHANGED <<pipeVars, fin>>

ExtractNext == ApplyExtractJson

ExtractSpec == ExtractInit /\ [][ExtractNext]_vars

-----------------------------------------------------------------------------
\* The three data connectors called on their own: fin is the call (connector
\* live or not, the arguments, whether the module global already holds a
\* handle, and what the backend does), fout the function called and its outcome.

ConnectorWindows == {DefaultWindow, 15, 2000000000}
ConnectorLimits == {1, RunbookLimit}

ConnectorInit ==
    /\ PipeIdle
    /\ fin \in [live : BOOLEAN, service : {"payment-svc", "search-svc"},
                window : ConnectorWindows, limit : ConnectorLimits,
                handle : BOOLEAN, dd : DdBehaviours, neo : NeoBehaviours,
                mongo : MongoBehaviours]
    /\ fout = <<>>

ApplyFetchEvidence ==
    /\ fout = <<>>
    /\ fout' = << [fn |-> "fetch_evidence",
                   out |-> fetch_evidence(fin.live, fin.service, fin.window, fin.dd)] >>
    /\ UNCHANGED <<pipeVars, fin>>

ApplyFetchBlastRadius ==
    /\ fout = <<>>
    /\ fout' = << [fn |-> "fetch_blast_radius",
                   out |-> fetch_blast_radius(fin.live, fin.service, fin.handle,
                                              fin.neo)] >>
    /\ UNCHANGED <<pipeVars, fin>>

ApplyFetchRunbooks ==
    /\ fout = <<>>
    /\ fout' = << [fn |-> "fetch_runbooks",
                   out |-> fetch_runbooks(fin.live, fin.service, fin.limit,
                                          fin.handle, fin.mongo)] >>
    /\ UNCHANGED <<pipeVars, fin>>

ConnectorNext ==
    \/ ApplyFetchEvidence
    \/ ApplyFetchBlastRadius
    \/ ApplyFetchRunbooks

ConnectorSpec == ConnectorInit /\ [][ConnectorNext]_vars

-----------------------------------------------------------------------------
\* Two investigations running at once in one process.  Each run's RCA stage
\* calls fetch_blast_radius and fetch_runbooks in worker threads; both go
\* through the module globals _driver (neo4j.py 12) and _client (mongodb.py
\* 12).  fin holds the two runs' services; fout holds, per run and connector,
\* where the thread stands in _get_driver / _collection, which run last wrote
\* each global, and which reads and overwrites of another run's write occurred.

Runs == {1, 2}

\* What neither _get_driver nor _collection touches.
restVars == <<focus, cfg, body, http, connected, alert, opc, triage, investigation,
              rca, rcaTier, fetch, events, calls, log, toolCalls, fin>>
Globals == {"neo4j", "mongodb"}

SharedInit ==
    /\ PipeIdle
    /\ fin \in { <<"payment-svc", "search-svc">>, <<"search-svc", "payment-svc">> }
    /\ fout = [pc |-> [r \in Runs |-> [g \in Globals |-> "call"]],
               writer |-> [g \in Globals |-> 0],
               reads |-> {},
               overwrites |-> {}]

\* "if _driver is None:" / "if _client is None:": the thread reads the global.
HandleCheck(r, g) ==
    /\ fout.pc[r][g] = "call"
    /\ fout' = [fout EXCEPT
            !.pc[r][g] = IF handles[g] THEN "return" ELSE "construct",
            !.reads = IF handles[g] THEN @ \cup {<<r, fout.writer[g]>>} ELSE @]
    /\ UNCHANGED <<handles, restVars>>

\* "_driver = GraphDatabase.driver(...)" / "_client = MongoClient(...)": the
\* thread writes the global, whatever it holds by now.
HandleConstruct(r, g) ==
    /\ fout.pc[r][g] = "construct"
    /\ handles' = [handles EXCEPT ![g] = TRUE]
    /\ fout' = [fout EXCEPT
            !.pc[r][g] = "return",
            !.writer[g] = r,
            !.overwrites = IF handles[g] THEN @ \cup {<<r, fout.writer[g]>>} ELSE @]
    /\ UNCHANGED restVars

\* "return _driver" / "return _client[...]": the thread reads the global again
\* and uses what it holds.
HandleReturn(r, g) ==
    /\ fout.pc[r][g] = "return"
    /\ fout' = [fout EXCEPT
            !.pc[r][g] = "done",
            !.reads = @ \cup {<<r, fout.writer[g]>>}]
    /\ UNCHANGED <<handles, restVars>>

SharedNext ==
    \/ \E r \in Runs, g \in Globals : HandleCheck(r, g)
    \/ \E r \in Runs, g \in Globals : HandleConstruct(r, g)
    \/ \E r \in Runs, g \in Globals : HandleReturn(r, g)

SharedSpec == SharedInit /\ [][SharedNext]_vars

-----------------------------------------------------------------------------
\* Events of the stream.

Kind(e) == <<e.type, e.agent, e.status>>
Kinds == [i \in 1..Len(events) |-> Kind(events[i])]

SuccessfulRunKinds ==
    << <<"step", "triage", "running">>, <<"step", "triage", "completed">>,
       <<"step", "investigation", "running">>, <<"step", "investigation", "completed">>,
       <<"step", "rca", "running">>, <<"step", "rca", "completed">>,
       <<"report", "-", "-">> >>

Emitted(type) == \E i \in 1..Len(events) : events[i].type = type

Terminal == Emitted("report") \/ Emitted("error")

\* run() is over: it returned after the report or an exception left it.
RunOver == opc \in {"y_report", "done", "y_error", "failed"}

\* An exception left one of the three agents' run().
StageRaised ==
    \E i \in 1..Len(events) :
        /\ events[i].type = "error"
        /\ events[i].payload \in
              {OverflowInFetchEvidence, DriverConstructionFailed, SortedRaised}

\* The call trace holds the entry.
Called(entry) == Contains(calls, entry)

\* The remote tier returned without a result.
TierFailed(tier) == \E e \in FailedEndings : Called(TierReturn(tier, e))

\* What the direct fetch_evidence(alert.service, window) of this run can return.
DirectEvidence ==
    { fetch_evidence(cfg.datadog, alert.service, triage.investigationWindowMinutes,
                     dd).res.val[1] :
        dd \in { d \in DdOutcomes :
                   ~fetch_evidence(cfg.datadog, alert.service,
                                   triage.investigationWindowMinutes, d).res.raised } }

-----------------------------------------------------------------------------
\* Claims

\* C1: in every call of AriaOrchestrator.run in which no stage raises, the
\* emitted events are exactly the six step events (running then completed for
\* triage, investigation, rca) followed by one report event.
C1_ExactSequenceUnlessStageRaises ==
    (RunOver /\ ~StageRaised) => Kinds = SuccessfulRunKinds

\* C2: every stream that has started eventually carries a terminal event, a
\* report or an error, when every awaited call returns and the client keeps
\* reading.
C2_StartedStreamEndsWithTerminalEvent ==
    (http = "streaming") ~> Terminal

C2_Witness ==
    /\ http = "closed"
    /\ opc = "failed"
    /\ events[Len(events)].type = "error"

\* C3: report and error are mutually exclusive and terminal: such an event is
\* the last one of the stream, and once an exception has left the
\* orchestration the events are the steps emitted so far, then one error
\* event, and nothing else.
C3_ReportAndErrorAreTerminal ==
    /\ \A i \in 1..Len(events) :
          events[i].type \in {"report", "error"} => i = Len(events)
    /\ opc \in {"y_error", "failed"} =>
          /\ events # <<>>
          /\ events[Len(events)].type = "error"
          /\ \A i \in 1..(Len(events) - 1) : events[i].type = "step"
    /\ Emitted("error") => opc \in {"y_error", "failed"}

C3_Witness ==
    /\ opc = "failed"
    /\ http = "closed"
    /\ Len(events) = 4
    /\ events[4].type = "error"

\* C4: TriageAgent.run, InvestigationAgent.run and RCAAgent.run never raise,
\* whatever the backends do.
C4_NoStageRaises == ~StageRaised

\* The steps of the run and of its worker threads.
RunStep ==
    \/ RunStart
    \/ TriageStart
    \/ TriageStrandsReturn
    \/ InvestigationRunning
    \/ InvestigationStart
    \/ InvestigationStrandsReturn
    \/ FetchEvidenceReturn
    \/ RcaRunning
    \/ RcaStart
    \/ GraphThread
    \/ RunbooksThread
    \/ GatherReturn
    \/ RcaStrandsReturn
    \/ SynthesizeReturn

\* C5: once run() has started, the three stages run to completion whether or
\* not the events are consumed: until RCA is done (or an exception has ended
\* the run) a step of the run can always be taken, also with the client gone.
C5_StagesNotGatedOnConsumption ==
    (http = "streaming" /\ opc # "start" /\ ~connected /\ rcaTier = 0
        /\ ~Emitted("error"))
        => ENABLED RunStep

\* C6: a malformed alert is rejected before the pipeline starts: no event is
\* emitted and no stage is invoked for it.
C6_MalformedAlertRejectedBeforePipeline ==
    (body.service = Missing \/ ~IsNum(body.p99LatencyMs) \/ ~IsNum(body.errorRatePct))
        => /\ http \in {"pending", "rejected"}
           /\ opc = "none"
           /\ events = <<>>
           /\ calls = <<>>

C6_Witness ==
    /\ body.service = Missing
    /\ http = "rejected"

\* C7: _rule_based yields sev1 when errorRatePct >= 10 or p99LatencyMs >= 3000,
\* otherwise sev2 when errorRatePct >= 5 or p99LatencyMs >= 2000, otherwise sev3.
C7_RuleBasedThresholds ==
    fout # <<>> =>
        LET e == fin.errorRatePct
            l == fin.p99LatencyMs
            sev == fout[1].severity
        IN  /\ (e >= 10 \/ l >= 3000) => sev = "sev1"
            /\ (~(e >= 10 \/ l >= 3000) /\ (e >= 5 \/ l >= 2000)) => sev = "sev2"
            /\ (e < 5 /\ l < 2000) => sev = "sev3"

C7_Witness ==
    /\ fout # <<>>
    /\ fin.errorRatePct = 10
    /\ fin.p99LatencyMs = 0
    /\ fout[1].severity = "sev1"

\* C8: TriageAgent.run never returns a TriageResult whose severity is outside
\* {sev1, sev2, sev3}.
C8_SeverityIsOneOfThree ==
    triage # NoTriage => triage.severity \in {"sev1", "sev2", "sev3"}

\* The probability a hypothesis is ranked by (none given: 0).
RankedProbability(h) == IF h.probability.k = "num" THEN h.probability.n ELSE 0

NonIncreasing(hyps) ==
    \A a, b \in 1..Len(hyps) :
        a < b => RankedProbability(hyps[a]) >= RankedProbability(hyps[b])

\* C9: in every report event rca.hypotheses is sorted by probability in
\* non-increasing order, whichever tier produced it.
C9_ReportHypothesesSorted ==
    \A i \in 1..Len(events) :
        events[i].type = "report" =>
            /\ events[i].payload.rca.hypotheses.k = "list"
            /\ NonIncreasing(events[i].payload.rca.hypotheses.v)

C9_Witness ==
    /\ Emitted("report")
    /\ rcaTier = 2
    /\ Len(rca.hypotheses.v) = 3
    /\ rca.hypotheses.v[1].title = "high"
    /\ rca.hypotheses.v[2].title = "low"
    /\ rca.hypotheses.v[3].title = "unrated"

\* C10: whichever tier produces the RCA result, its blastRadius is the
\* impactedServices of the graph fetched up front and its runbooks are the
\* runbooks fetched up front; what a remote tier echoed does not appear.
C10_FetchedValuesOverwriteEcho ==
    rcaTier # 0 =>
        /\ rca.blastRadius = List(fetch.graphRes.impactedServices)
        /\ rca.runbooks = List(fetch.runbooksRes)
        /\ rca.blastRadius # List(EchoedBlast)
        /\ rca.runbooks # List(EchoedRunbooks)

C10_Witness ==
    /\ rcaTier = 1
    /\ toolCalls = 1
    /\ Emitted("report")
    /\ fetch.graphRes.connectorMode = "live"

\* C11: _build_fallback, for any alert, any evidence with at least one log
\* finding and any list of runbooks, returns exactly two hypotheses with
\* probabilities 0.88 then 0.58, confidence 0.88, and a recommendedPlan of at
\* most 5 entries without a duplicate.
C11_FallbackShape ==
    (fout # <<>> /\ fin.inv.topErrors # <<>>) =>
        LET r == fout[1]
            plan == r.recommendedPlan.v
        IN  /\ r.hypotheses.k = "list"
            /\ Len(r.hypotheses.v) = 2
            /\ r.hypotheses.v[1].probability = Num(88)
            /\ r.hypotheses.v[2].probability = Num(58)
            /\ r.confidence = Num(88)
            /\ Len(plan) <= 5
            /\ \A i, j \in 1..Len(plan) : plan[i] = plan[j] => i = j

\* Two runbooks whose steps overlap and outnumber the cap.
C11_Witness ==
    /\ fout # <<>>
    /\ fin.inv.topErrors # <<>>
    /\ Len(fin.runbooks) = 2
    /\ fin.runbooks[1].title = "A"
    /\ fin.runbooks[2].title = "B"
    /\ fout[1].recommendedPlan.v = <<"s1", "s2", "s3", "s4", "s5">>

TierLogEntries(tier) ==
    CASE tier = "triage._run_strands" -> {"Strands triage failed"}
      [] tier = "investigation._run_strands" -> {"Strands investigation failed"}
      [] tier = "rca._run_strands" -> {"Strands RCA failed"}
      [] tier = "bedrock.synthesize_rca" ->
            {"Bedrock boto3 invoke failed", "Bedrock unavailable"}

RemoteTiers ==
    {"triage._run_strands", "investigation._run_strands", "rca._run_strands",
     "bedrock.synthesize_rca"}

LoggedFor(tier) == Cardinality({i \in 1..Len(log) : log[i] \in TierLogEntries(tier)})

\* C13: every failed tier of Triage, Investigation or RCA is recorded by
\* exactly one log entry.
C13_OneLogEntryPerFailedTier ==
    \A tier \in RemoteTiers : TierFailed(tier) => LoggedFor(tier) = 1

\* The call-trace entries of remote reasoning: the remote tiers and the tools
\* only their agents call.
RemoteCalls ==
    RemoteTiers \cup {"tool.datadog.fetch_evidence", "tool.neo4j.fetch_blast_radius",
                      "tool.mongodb.fetch_runbooks"}

\* C14: with the synthesis backend not enabled no remote tier is attempted:
\* no remote call, no failure logged for a skipped tier, Triage returns the
\* rule-based result, Investigation the direct connector result, RCA the
\* deterministic fallback.
C14_DisabledBackendSkipsRemoteTiers ==
    ~cfg.bedrock =>
        /\ \A i \in 1..Len(calls) : calls[i] \notin RemoteCalls
        /\ \A tier \in RemoteTiers : ~TierFailed(tier) /\ LoggedFor(tier) = 0
        /\ triage # NoTriage => triage = rule_based(alert)
        /\ investigation # NoEvidence => investigation \in DirectEvidence
        /\ rcaTier # 0 =>
              /\ rcaTier = 3
              /\ rca = build_fallback(alert, investigation, fetch.runbooksRes,
                                      fetch.graphRes.impactedServices)

C14_Witness ==
    /\ ~cfg.bedrock
    /\ cfg.datadog
    /\ Emitted("report")
    /\ rcaTier = 3
    /\ investigation.connectorMode = "live"
    /\ calls = <<"triage._rule_based", "datadog.fetch_evidence",
                 "neo4j.fetch_blast_radius", "mongodb.fetch_runbooks",
                 "rca._build_fallback">>

\* An RCA tier has started.
RcaTierStarted ==
    Called("rca._run_strands") \/ Called("bedrock.synthesize_rca")
        \/ Called("rca._build_fallback")

\* C15: in RCAAgent.run the blast-radius fetch and the runbook fetch are
\* started together, either can proceed while the other is still running, and
\* no RCA tier starts before both have completed.
C15_FetchesConcurrentAndJoined ==
    /\ (fetch.graph = "idle") <=> (fetch.runbooks = "idle")
    /\ fetch.graph = "running" => ENABLED GraphThread
    /\ fetch.runbooks = "running" => ENABLED RunbooksThread
    /\ RcaTierStarted => (fetch.graph = "done" /\ fetch.runbooks = "done")

\* Both fetches in flight at once.
C15_Witness ==
    /\ fetch.graph = "running"
    /\ fetch.runbooks = "running"
    /\ opc = "await_gather"

\* How many times the entries of a set occur in the call trace.
TimesCalled(entries) == Cardinality({i \in 1..Len(calls) : calls[i] \in entries})

\* C16: in every RCA run the dependency graph and the runbooks are each
\* fetched from their connector once, up front; no tier calls the graph or the
\* runbook connector again.
C16_ConnectorsFetchedOncePerRun ==
    /\ TimesCalled({"neo4j.fetch_blast_radius", "tool.neo4j.fetch_blast_radius"}) <= 1
    /\ TimesCalled({"mongodb.fetch_runbooks", "tool.mongodb.fetch_runbooks"}) <= 1
    /\ RcaTierStarted =>
          /\ TimesCalled({"neo4j.fetch_blast_radius"}) = 1
          /\ TimesCalled({"mongodb.fetch_runbooks"}) = 1

\* C17: concurrent runs share no mutable state: no run reads a value another
\* run wrote, and no run overwrites another run's write.
C17_RunsShareNoMutableState ==
    /\ \A p \in fout.reads : p[1] = p[2]
    /\ \A p \in fout.overwrites : p[1] = p[2]

\* The connector function fn has been called and has ended.
Ended(fn) == fout # <<>> /\ fout[1].fn = fn

\* C18: fetch_evidence never fails its caller: when the live call fails it
\* returns the offline evidence with one failure note after the offline notes;
\* a successful live query gives connectorMode live and no failure note.
C18_FetchEvidenceNeverFails ==
    Ended("fetch_evidence") =>
        LET r == fout[1].out.res
            offline == mock_datadog_evidence(fin.service)
        IN  /\ ~r.raised
            /\ ~fin.live => r.val[1] = offline
            /\ (fin.live /\ ~fin.dd.ok) =>
                  r.val[1] = [offline EXCEPT !.notes = offline.notes \o <<"Live query failed">>]
            /\ (fin.live /\ fin.dd.ok) =>
                  /\ r.val[1].connectorMode = "live"
                  /\ r.val[1].notes = <<>>

\* C19: fetch_blast_radius never fails its caller: on every backend failure,
\* a failure while obtaining the driver included, it returns the offline graph.
C19_FetchBlastRadiusNeverFails ==
    Ended("fetch_blast_radius") =>
        LET r == fout[1].out.res
        IN  /\ ~r.raised
            /\ (~fin.live \/ ~fin.neo.ok) => r.val[1] = mock_dependency_graph(fin.service)
            /\ (fin.live /\ fin.neo.ok) => r.val[1].connectorMode = "live"

\* C20: fetch_runbooks never fails its caller: on a failing client
\* construction, a failing query or a malformed document, and when the live
\* query matches nothing, it returns the offline runbooks; otherwise the
\* runbooks found.
C20_FetchRunbooksNeverFails ==
    Ended("fetch_runbooks") =>
        LET r == fout[1].out.res
            found == fin.live /\ (fin.handle \/ fin.mongo.ctor) /\ fin.mongo.ok
                        /\ fin.mongo.wellFormed /\ fin.mongo.docs # <<>>
        IN  /\ ~r.raised
            /\ ~found => r.val[1] = mock_runbooks(fin.service)
            /\ found =>
                  /\ r.val[1] # <<>>
                  /\ Len(r.val[1]) <= fin.limit
                  /\ \A i \in 1..Len(r.val[1]) : r.val[1][i] = fin.mongo.docs[i]

\* A stored document that does not build a Runbook.
C20_Witness ==
    /\ Ended("fetch_runbooks")
    /\ fin.live
    /\ fin.mongo = MongoMalformed(LiveRunbooks)
    /\ fout[1].out.res.val = <<mock_runbooks(fin.service)>>
    /\ fout[1].out.logs = <<"MongoDB query failed">>

\* C21: the evidence in a report has connectorMode live only if its findings
\* came from a successful live Datadog query; with the Datadog connector
\* offline no live query is made, so the mode is then never live.
C21_ConnectorModeFaithful ==
    \A i \in 1..Len(events) :
        events[i].type = "report" =>
            (events[i].payload.investigation.connectorMode = "live" => cfg.datadog)

\* What the demo alert's run shows: its events are always the first events of
\* a successful run and, once the run is over, the six steps and the report,
\* which holds severity sev1, confidence 0.88 and the payment-svc fixture's
\* impacted services in the fixture's order.
DemoRunShown ==
    /\ Len(events) <= Len(SuccessfulRunKinds)
    /\ Kinds = SubSeq(SuccessfulRunKinds, 1, Len(events))
    /\ RunOver =>
          /\ Len(events) = Len(SuccessfulRunKinds)
          /\ LET report == events[Len(events)].payload
             IN  /\ report.triage.severity = "sev1"
                 /\ report.rca.confidence = Num(FallbackConfidence)
                 /\ report.rca.blastRadius =
                       List(<<"checkout-svc", "order-api", "fraud-detection-svc">>)

Invoked(stage) ==
    TimesCalled({ CASE stage = "triage" ->
                         IF cfg.bedrock THEN "triage._run_strands" ELSE "triage._rule_based"
                    [] stage = "investigation" ->
                         IF cfg.bedrock THEN "investigation._run_strands"
                         ELSE "datadog.fetch_evidence"
                    [] OTHER -> "neo4j.fetch_blast_radius" })

\* How many completed step events the stage has.
Completed(stage) ==
    Cardinality({ i \in 1..Len(events) :
                    Kind(events[i]) = <<"step", stage, "completed">> })

\* C24: each stage is invoked at most once, exactly once in a run that ends
\* with a report, Investigation only after Triage returned and RCA only after
\* Investigation returned; a stage's result, once produced, is never replaced.
C24_StagesOnceInForwardOrder ==
    /\ [] /\ \A stage \in {"triage", "investigation", "rca"} :
               /\ Invoked(stage) <= 1
               /\ Completed(stage) <= Invoked(stage)
               /\ Emitted("report") => Invoked(stage) = 1 /\ Completed(stage) = 1
          /\ Invoked("investigation") = 1 => triage # NoTriage /\ Completed("triage") = 1
          /\ Invoked("rca") = 1 =>
                investigation # NoEvidence /\ Completed("investigation") = 1
    /\ [][ /\ triage # NoTriage => triage' = triage
           /\ investigation # NoEvidence => investigation' = investigation
           /\ rcaTier # 0 => rca' = rca /\ rcaTier' = rcaTier ]_vars

C24_Witness ==
    /\ Emitted("report")
    /\ cfg.bedrock
    /\ rcaTier = 2
    /\ Called("datadog.fetch_evidence")

\* C25: a remote RCA answer in which some hypothesis has a probability outside
\* [0, 1] or lacks title, probability, evidence or remediation is not returned:
\* every hypothesis of a result that tier 1 or tier 2 produced is well formed.
C25_MalformedHypothesisFailsTier ==
    rcaTier \in {1, 2} =>
        /\ rca.hypotheses.k = "list"
        /\ \A i \in 1..Len(rca.hypotheses.v) :
              LET h == rca.hypotheses.v[i]
              IN  /\ h.title # Missing
                  /\ h.probability.k = "num"
                  /\ h.probability.n \in 0..100
                  /\ h.evidence.k = "list"
                  /\ h.remediation.k = "list"

\* C26: in every report event, whichever RCA tier produced the result,
\* rca.recommendedPlan is present, holds no entry twice and has at most 5 entries.
C26_ReportPlanDeduplicatedAndCapped ==
    \A i \in 1..Len(events) :
        events[i].type = "report" =>
            LET plan == events[i].payload.rca.recommendedPlan
            IN  /\ plan.k = "list"
                /\ Len(plan.v) <= PlanCap
                /\ \A a, b \in 1..Len(plan.v) : a # b => plan.v[a] # plan.v[b]

\* Opening braces minus closing braces in text[i..k].
Depth(text, i, k) ==
    Cardinality({n \in i..k : text[n].t = "lb"})
        - Cardinality({n \in i..k : text[n].t = "rb"})

\* text[i..j] is a balanced {...}: the brace opened at i is closed at j.
Balanced(text, i, j) ==
    /\ text[i].t = "lb"
    /\ text[j].t = "rb"
    /\ Depth(text, i, j) = 0
    /\ \A k \in i..(j - 1) : Depth(text, i, k) > 0

\* The balanced {...} substrings of the text that parse as JSON.
BalancedObjects(text) ==
    { p \in (1..Len(text)) \X (1..Len(text)) :
        /\ p[1] < p[2]
        /\ Balanced(text, p[1], p[2])
        /\ JsonLoads(SubSeq(text, p[1], p[2])) # JsonNone }

\* The first of them, parsed; JsonNone when the text holds none.
FirstBalancedObject(text) ==
    IF BalancedObjects(text) = {}
    THEN JsonNone
    ELSE LET p == CHOOSE q \in BalancedObjects(text) :
                     \A r \in BalancedObjects(text) : q[1] <= r[1]
         IN  JsonLoads(SubSeq(text, p[1], p[2]))

\* C27: JSON extraction returns the first balanced {...} object of the text,
\* also when a stray closing brace or a second object follows it, and fails
\* only for a text that holds no parseable balanced object.
C27_ExtractsFirstBalancedObject ==
    fout # <<>> => fout[1] = FirstBalancedObject(fin)

\* The tiers of the three stages, in the order their run() tries them.
StageTiers ==
    << <<"triage._run_strands", "triage._rule_based">>,
       <<"investigation._run_strands", "datadog.fetch_evidence">>,
       <<"rca._run_strands", "bedrock.synthesize_rca", "rca._build_fallback">> >>

\* C28: tiers are tried in fixed order and the first valid result wins: a
\* later tier is invoked only when every earlier tier of its stage was skipped
\* (backend disabled) or returned no valid result, no tier is invoked twice,
\* and once a tier returned a valid result no later tier of the stage is invoked.
C28_FirstValidTierWins ==
    /\ Called("triage._rule_based") =>
          ~cfg.bedrock \/ TierFailed("triage._run_strands")
    /\ Called("datadog.fetch_evidence") =>
          ~cfg.bedrock \/ TierFailed("investigation._run_strands")
    /\ Called("bedrock.synthesize_rca") =>
          cfg.bedrock /\ TierFailed("rca._run_strands")
    /\ Called("rca._build_fallback") =>
          \/ ~cfg.bedrock
          \/ TierFailed("rca._run_strands") /\ TierFailed("bedrock.synthesize_rca")
    /\ \A s \in 1..Len(StageTiers) :
          \A a, b \in 1..Len(StageTiers[s]) :
              LET early == StageTiers[s][a]
                  late == StageTiers[s][b]
              IN  /\ TimesCalled({early}) <= 1
                  /\ (a < b /\ Called(late)) =>
                        /\ ~Called(TierReturn(early, "valid"))
                        /\ Called(early) =>
                              \E i, j \in 1..Len(calls) :
                                  /\ i < j
                                  /\ calls[i] \in {TierReturn(early, e) : e \in FailedEndings}
                                  /\ calls[j] = late

C28_Witness ==
    /\ Emitted("report")
    /\ Called(TierReturn("triage._run_strands", "valid"))
    /\ ~Called("triage._rule_based")
    /\ TierFailed("rca._run_strands")
    /\ Called(TierReturn("bedrock.synthesize_rca", "valid"))
    /\ ~Called("rca._build_fallback")
    /\ rcaTier = 2

\* The elements of s in their order, each at its first occurrence only.
FirstOccurrences(s) ==
    LET firsts == {i \in 1..Len(s) : \A j \in 1..(i - 1) : s[j] # s[i]}
    IN  [k \in 1..Cardinality(firsts) |->
            s[CHOOSE i \in firsts : Cardinality({j \in firsts : j <= i}) = k]]

\* The steps of the runbooks, in runbook order then step order.
RECURSIVE RunbookSteps(_)
RunbookSteps(runbooks) ==
    IF runbooks = <<>> THEN <<>>
    ELSE Head(runbooks).steps \o RunbookSteps(Tail(runbooks))

\* The remediation of the primary hypothesis: the first 3 steps of the first
\* (best-matching) runbook, or the two default steps.
PrimaryRemediation(runbooks) ==
    IF runbooks # <<>> /\ runbooks[1].steps # <<>>
    THEN SubSeq(runbooks[1].steps, 1, Min(Len(runbooks[1].steps), PrimarySteps))
    ELSE <<"Increase DB pool limit.", "Add circuit breaker.">>

\* C29: the deterministic tier's recommendedPlan is the primary hypothesis's
\* remediation steps with repeats removed, followed by the not-yet-present
\* steps of the runbooks in runbook order then step order, as many as fit
\* into a plan of 5 entries.
C29_FallbackPlanContent ==
    fout # <<>> =>
        LET remediation == PrimaryRemediation(fin.runbooks)
            own == FirstOccurrences(remediation)
            all == FirstOccurrences(remediation \o RunbookSteps(fin.runbooks))
            more == SubSeq(all, Len(own) + 1, Len(all))
        IN  /\ fout[1].hypotheses.v[1].remediation = List(remediation)
            /\ fout[1].recommendedPlan =
                  List(own \o SubSeq(more, 1, Min(Len(more), PlanCap - Len(own))))

\* A primary runbook that repeats its step, and more runbook steps than fit.
C29_Witness ==
    /\ fout # <<>>
    /\ Len(fin.runbooks) = 3
    /\ fin.runbooks[1].title = "D"
    /\ fin.runbooks[2].title = "A"
    /\ fin.runbooks[3].title = "B"
    /\ fout[1].recommendedPlan = List(<<"s8", "s1", "s2", "s3", "s4">>)

\* The payloads of the stage's completed step events.
CompletedPayloads(stage) ==
    { events[i].payload : i \in { j \in 1..Len(events) :
                                    Kind(events[j]) = <<"step", stage, "completed">> } }

\* C30: the payload of each completed step event agrees with the report of the
\* same run: the triage step's severity and investigationWindowMinutes, the
\* investigation step's datadogMode, and the rca step's confidence and
\* blastRadiusSize are those of the report (a report whose rca holds no
\* confidence has a step whose confidence is null).
C30_StepPayloadsAgreeWithReport ==
    \A i \in 1..Len(events) :
        events[i].type = "report" =>
            LET report == events[i].payload
            IN  /\ CompletedPayloads("triage") =
                      { [severity |-> report.triage.severity,
                         investigationWindowMinutes |->
                             report.triage.investigationWindowMinutes] }
                /\ CompletedPayloads("investigation") =
                      { [datadogMode |-> report.investigation.connectorMode] }
                /\ CompletedPayloads("rca") =
                      { [confidence |-> DictGet(report.rca.confidence),
                         blastRadiusSize |-> Len(report.rca.blastRadius.v)] }
                /\ report.rca.blastRadius.k = "list"

C30_Witness ==
    /\ Emitted("report")
    /\ rcaTier = 1
    /\ rca.confidence = AbsentV
    /\ fetch.graphRes.connectorMode = "live"
    /\ CompletedPayloads("rca") =
          { [confidence |-> NullV, blastRadiusSize |-> Len(LiveGraph.impacted)] }

\* C31: each lazily initialised connector handle is constructed at most once
\* per process, whatever the interleaving of the worker threads of concurrent
\* runs: two threads never both find the handle unset and both construct one.
C31_HandleConstructedAtMostOnce ==
    \A g \in Globals :
        /\ Cardinality({r \in Runs : fout.pc[r][g] = "construct"}) <= 1
        /\ \A r \in Runs : fout.pc[r][g] = "construct" => ~handles[g]
        /\ \A p \in fout.overwrites : FALSE

====
